---- MODULE Spec2Model ----
(***************************************************************************)
(* A model of iata_code_fetcher: the code-space enumerator, the fetch with *)
(* bounded retry, the crawl driver that appends to the per-kind JSONL log, *)
(* and the normalisation (dedup, rename, sort) of such a log.              *)
(*                                                                         *)
(* Strings of the program are TLA+ strings.  A piece of HTML text is a     *)
(* record [pad, s]: the text s, surrounded by whitespace when pad holds.   *)
(* A Python dict is the sequence of its <<key, value>> items in insertion  *)
(* order.                                                                  *)
(***************************************************************************)
EXTENDS Integers, Sequences, FiniteSets, TLC

(***************************************************************************)
(* Bounds of the model.                                                    *)
(***************************************************************************)
\* how many of the 26 uppercase letters the alphabet keeps (the first ones)
NLetters == 2
\* how many of the 10 digits the alphabet keeps (the last ones)
NDigits == 1
\* the crawl logs are offered no more rows once they hold this many lines
MaxLog == 2
\* the longest code length the enumerator is run with on its own
MaxLength == 4
\* the longest crawl log the normalisation is run on
MaxLines == 3

(***************************************************************************)
(* Constants of fetcher.py.                                                *)
(***************************************************************************)
CARRIER_FILE == "carrier_data_full.jsonl"
AIRPORT_FILE == "airport_data_full.jsonl"
REPORT_FREQUENCY == 100
MAX_RETRIES == 3
RETRY_DELAY == 15
TIMEOUT == 20

CodeType == {"CARRIER", "AIRPORT"}

ascii_uppercase ==
    <<"A", "B", "C", "D", "E", "F", "G", "H", "I", "J", "K", "L", "M",
      "N", "O", "P", "Q", "R", "S", "T", "U", "V", "W", "X", "Y", "Z">>

digits == <<"0", "1", "2", "3", "4", "5", "6", "7", "8", "9">>

\* the characters of ascii_uppercase + digits that a run of the model keeps
VARIABLE pool

\* the first nl letters followed by the last nd digits
Pool(nl, nd) ==
    SubSeq(ascii_uppercase, 1, nl) \o SubSeq(digits, Len(digits) - nd + 1, Len(digits))

\* ascii_uppercase + digits, cut down to the pool of the run
Alphabet == pool

(***************************************************************************)
(* generate_codes: a generator over itertools.product, each tuple joined.  *)
(* product keeps one index per position; the first tuple has every index   *)
(* on the first element of the pool, and each later one advances the       *)
(* rightmost index that is not on the last element and resets those to its *)
(* right.                                                                  *)
(***************************************************************************)
\* the generator generate_codes(length) returns, before its first next()
generate_codes(length) == [repeat |-> length, indices |-> <<>>, started |-> FALSE]

\* whether next(generator) yields a code (or raises StopIteration)
HasNext(g) ==
    IF ~g.started
    THEN g.repeat = 0 \/ Len(Alphabet) > 0
    ELSE \E j \in 1..g.repeat : g.indices[j] < Len(Alphabet)

\* a product that advances the leftmost index that can advance
NextIndices_LeftFastest(indices, k) ==
    LET n == Len(indices)
        p == CHOOSE j \in 1..n : indices[j] < k /\ \A m \in 1..(j - 1) : indices[m] = k
    IN  [j \in 1..n |-> IF j > p THEN indices[j] ELSE IF j = p THEN indices[j] + 1 ELSE 1]

\* product's step: the rightmost index below k moves on, those after it restart
NextIndices(indices, k) ==
    LET n == Len(indices)
        p == CHOOSE j \in 1..n : indices[j] < k /\ \A m \in (j + 1)..n : indices[m] = k
    IN  [j \in 1..n |-> IF j < p THEN indices[j] ELSE IF j = p THEN indices[j] + 1 ELSE 1]

\* the generator after next()
Advance(g) ==
    IF ~g.started
    THEN [g EXCEPT !.started = TRUE, !.indices = [j \in 1..g.repeat |-> 1]]
    ELSE [g EXCEPT !.indices = NextIndices(g.indices, Len(Alphabet))]

\* "".join(letters)
RECURSIVE join(_)
join(letters) == IF letters = <<>> THEN "" ELSE Head(letters) \o join(Tail(letters))

\* the code the generator yielded last
Current(g) == join([j \in 1..g.repeat |-> Alphabet[g.indices[j]]])

\* 2 if code_type == CodeType.CARRIER else 3
CodeLength(ct) == IF ct = "CARRIER" THEN 2 ELSE 3

\* one file for both kinds
FilePath_Shared(ct) == CARRIER_FILE

\* CARRIER_FILE if code_type == CodeType.CARRIER else AIRPORT_FILE
FilePath(ct) == IF ct = "CARRIER" THEN CARRIER_FILE ELSE AIRPORT_FILE

(***************************************************************************)
(* The remote catalog's answers.  A response is a transport failure        *)
(* (timeout, connection error, non-2xx status: requests raises a           *)
(* RequestException) or a body; a body holds no table.datatable, or one    *)
(* with its header cells, with or without a <tbody>, and the body rows.    *)
(***************************************************************************)
Text(pad, s) == [pad |-> pad, s |-> s]

\* str.strip()
strip(text) == text.s

NoTableDoc == [table |-> FALSE, thead |-> <<>>, tbody |-> FALSE, rows |-> <<>>]

TableDoc(thead, rows) == [table |-> TRUE, thead |-> thead, tbody |-> TRUE, rows |-> rows]

\* a table.datatable that has a <thead> and no <tbody>
NoTbodyDoc(thead) == [table |-> TRUE, thead |-> thead, tbody |-> FALSE, rows |-> <<>>]

\* the header cells of the example responses
HeaderCells(ct) ==
    IF ct = "CARRIER"
    THEN <<Text(FALSE, "Company name"), Text(FALSE, "Country / Territory"),
           Text(TRUE, "2-letter code")>>
    ELSE <<Text(FALSE, "City Name"), Text(FALSE, "Airport Name"),
           Text(TRUE, "3-letter location code")>>

\* the body rows the catalog may answer with
RowA(ct) ==
    IF ct = "CARRIER"
    THEN <<Text(FALSE, "BONZA AVIATION PTY LTD"), Text(FALSE, "Australia"), Text(FALSE, "AB")>>
    ELSE <<Text(FALSE, "Anaa"), Text(FALSE, "Anaa Airport"), Text(FALSE, "AAA")>>

RowB(ct) ==
    IF ct = "CARRIER"
    THEN <<Text(TRUE, "West Atlantic Sweden AB"), Text(TRUE, "Sweden"), Text(TRUE, "T2")>>
    ELSE <<Text(TRUE, "Aachen"), Text(TRUE, "Merzbruck Airport"), Text(TRUE, "AAH")>>

\* a row that shares its code and its second key field with RowA
RowC(ct) ==
    IF ct = "CARRIER"
    THEN <<Text(FALSE, "West Atlantic Sweden AB"), Text(FALSE, "Australia"), Text(FALSE, "AB")>>
    ELSE <<Text(FALSE, "Anaa"), Text(FALSE, "Merzbruck Airport"), Text(FALSE, "AAA")>>

\* a row with fewer cells than the header, and one with more
ShortRow(ct) == SubSeq(RowA(ct), 1, 2)

LongRow(ct) == Append(RowB(ct), Text(FALSE, "extra"))

Docs(ct) ==
    LET h == HeaderCells(ct)
    IN  { NoTableDoc,
          NoTbodyDoc(h),
          TableDoc(h, <<>>),
          TableDoc(h, <<RowA(ct)>>),
          TableDoc(h, <<RowA(ct), RowB(ct)>>),
          TableDoc(h, <<RowB(ct), RowA(ct)>>),
          TableDoc(h, <<ShortRow(ct)>>),
          TableDoc(h, <<LongRow(ct)>>) }

TransportFailure == [status |-> "error", doc |-> NoTableDoc]

Responses(ct) == {TransportFailure} \cup {[status |-> "ok", doc |-> d] : d \in Docs(ct)}

(***************************************************************************)
(* fetch_and_process_data: the parse of one response                       *)
(***************************************************************************)
\* the concatenation of a sequence of sequences
RECURSIVE Flatten(_)
Flatten(ss) == IF ss = <<>> THEN <<>> ELSE Head(ss) \o Flatten(Tail(ss))

\* dict item assignment d[k] = v: a present key keeps its place
DictSet(d, k, v) ==
    IF \E i \in 1..Len(d) : d[i][1] = k
    THEN [i \in 1..Len(d) |-> IF d[i][1] = k THEN <<k, v>> ELSE d[i]]
    ELSE Append(d, <<k, v>>)

\* dict(zip(keys, vals)): zip stops at the shorter of the two
RECURSIVE DictZipFrom(_, _, _, _)
DictZipFrom(d, keys, vals, i) ==
    IF i > Len(keys) \/ i > Len(vals)
    THEN d
    ELSE DictZipFrom(DictSet(d, keys[i], vals[i]), keys, vals, i + 1)

DictZip(keys, vals) == DictZipFrom(<<>>, keys, vals, 1)

\* table.find_all("td"): every cell of the table in document order, the
\* header cells first and then the cells of the body rows
FindAllTd(doc) == doc.thead \o Flatten(doc.rows)

\* [th.text.strip() for th in table.find_all("td")]
Headers(doc) == LET tds == FindAllTd(doc) IN [i \in 1..Len(tds) |-> strip(tds[i])]

\* the loop over table.find("tbody").find_all("tr")
ParseRows(doc) ==
    [r \in 1..Len(doc.rows) |->
        DictZip(Headers(doc), [c \in 1..Len(doc.rows[r]) |-> strip(doc.rows[r][c])])]

Outcome(type, rows) == [type |-> type, rows |-> rows]

NoOutcome == Outcome("none", <<>>)

\* a handler that sleeps after the last attempt too and never raises
OnRequestException_NeverRaise(attempt) == Outcome("retry", <<>>)

\* a handler whose comparison is off by one: it sleeps after the last attempt
OnRequestException_OffByOne(attempt) ==
    IF attempt < MAX_RETRIES
    THEN Outcome("retry", <<>>)
    ELSE Outcome("RequestException", <<>>)

\* except RequestException: sleep and go round again, or raise on the last attempt
OnRequestException(attempt) ==
    IF attempt < MAX_RETRIES - 1
    THEN Outcome("retry", <<>>)
    ELSE Outcome("RequestException", <<>>)

\* a missing table taken for a failure worth another attempt
OnNoTable_Retry == Outcome("retry", <<>>)

\* if not table: raise ValueError("No record found")
OnNoTable == Outcome("ValueError", <<>>)

\* table.find("tbody") is None and None has no find_all
OnNoTbody == Outcome("AttributeError", <<>>)

\* the body of the retry loop for one response
Attempt(resp, attempt) ==
    IF resp.status = "error" THEN OnRequestException(attempt)
    ELSE IF ~resp.doc.table THEN OnNoTable
    ELSE IF ~resp.doc.tbody THEN OnNoTbody
    ELSE Outcome("return", ParseRows(resp.doc))

(***************************************************************************)
(* The crawl log and its normalisation (process.py).  A line of the log    *)
(* holds one JSON object.  A DataFrame is its column names and its rows,   *)
(* each row a sequence of cells in column order; a cell is <<v>> for the   *)
(* string v and <<>> for null.  The rows of unique() and of sort() come in *)
(* an order polars leaves open where the sort key ties, so the             *)
(* normalisation of a log is the set of the frames it may return.          *)
(***************************************************************************)
\* json.dumps(item) + "\n": one line holding the JSON object
json_dumps(item) == [obj |-> item]

Frame(columns, rows) == [ok |-> TRUE, columns |-> columns, rows |-> rows]

\* the call raised
Failed == [ok |-> FALSE, columns |-> <<>>, rows |-> <<>>]

HasKey(obj, k) == \E i \in 1..Len(obj) : obj[i][1] = k

ValueOf(obj, k) == obj[CHOOSE i \in 1..Len(obj) : obj[i][1] = k][2]

\* the keys of obj that cols does not hold yet, added in the object's order
RECURSIVE AddKeys(_, _, _)
AddKeys(cols, obj, i) ==
    IF i > Len(obj) THEN cols
    ELSE AddKeys(IF \E c \in 1..Len(cols) : cols[c] = obj[i][1]
                 THEN cols ELSE Append(cols, obj[i][1]),
                 obj, i + 1)

\* the inferred schema: every key of the log, in order of first appearance
RECURSIVE Schema(_, _, _)
Schema(cols, lines, i) ==
    IF i > Len(lines) THEN cols
    ELSE Schema(AddKeys(cols, lines[i].obj, 1), lines, i + 1)

\* a line that is not a JSON object
BadLine == [text |-> "{"]

IsJsonLine(line) == "obj" \in DOMAIN line

\* the JSON value null; str.strip() returns no text that starts with a blank
JsonNull == " null"

\* a reader that leaves out the lines that are no JSON objects
read_ndjson_SkipBad(lines) ==
    LET good == SelectSeq(lines, IsJsonLine)
        cols == Schema(<<>>, good, 1)
    IN  Frame(cols,
              [r \in 1..Len(good) |->
                  [c \in 1..Len(cols) |->
                      IF /\ HasKey(good[r].obj, cols[c])
                         /\ ValueOf(good[r].obj, cols[c]) # JsonNull
                      THEN <<ValueOf(good[r].obj, cols[c])>>
                      ELSE <<>>]])

\* pl.read_ndjson(file_path): raises on a line that is no JSON object; a key
\* a line lacks, and a key it has with null, is null in its row
read_ndjson(lines) ==
    IF \E r \in 1..Len(lines) : ~IsJsonLine(lines[r]) THEN Failed
    ELSE LET cols == Schema(<<>>, lines, 1)
         IN  Frame(cols,
                   [r \in 1..Len(lines) |->
                       [c \in 1..Len(cols) |->
                           IF /\ HasKey(lines[r].obj, cols[c])
                              /\ ValueOf(lines[r].obj, cols[c]) # JsonNull
                           THEN <<ValueOf(lines[r].obj, cols[c])>>
                           ELSE <<>>]])

\* result.write_ndjson(output_path): one object per row, every column a key
write_ndjson(df) ==
    [r \in 1..Len(df.rows) |->
        [obj |-> [c \in 1..Len(df.columns) |->
                    <<df.columns[c],
                      IF df.rows[r][c] = <<>> THEN JsonNull ELSE df.rows[r][c][1]>>]]]

\* a unique() that keeps every row
unique_KeepAll(df) == df

\* a unique() that compares the first column only
unique_ByFirstColumn(df) ==
    IF ~df.ok THEN Failed ELSE
    LET keep == {r \in 1..Len(df.rows) :
                    \A q \in 1..(r - 1) : df.rows[q][1] # df.rows[r][1]}
        nth(n) == CHOOSE r \in keep : Cardinality({q \in keep : q < r}) = n - 1
    IN  Frame(df.columns, [n \in 1..Cardinality(keep) |-> df.rows[nth(n)]])

\* df.unique(): each distinct row once
unique(df) ==
    IF ~df.ok THEN Failed ELSE
    LET keep == {r \in 1..Len(df.rows) : \A q \in 1..(r - 1) : df.rows[q] # df.rows[r]}
        nth(n) == CHOOSE r \in keep : Cardinality({q \in keep : q < r}) = n - 1
    IN  Frame(df.columns, [n \in 1..Cardinality(keep) |-> df.rows[nth(n)]])

\* mappings that rename the code column only
RenameMap_CodeOnly(ct) ==
    IF ct = "CARRIER"
    THEN << <<"2-letter code", "iata">> >>
    ELSE << <<"3-letter location code", "iata">> >>

\* the rename mappings of process_airport_data and process_carrier_data
RenameMap(ct) ==
    IF ct = "CARRIER"
    THEN << <<"2-letter code", "iata">>,
            <<"Country / Territory", "country_or_territory">>,
            <<"Company name", "company_name">> >>
    ELSE << <<"3-letter location code", "iata">>,
            <<"City Name", "city_name">>,
            <<"Airport Name", "airport_name">> >>

\* the sort keys of process_airport_data and process_carrier_data
SortKey(ct) ==
    IF ct = "CARRIER"
    THEN <<"iata", "country_or_territory", "company_name">>
    ELSE <<"iata", "city_name", "airport_name">>

HasColumn(df, name) == \E c \in 1..Len(df.columns) : df.columns[c] = name

\* df.rename(mapping): raises when a column to rename is missing, and when
\* two columns would bear one name
rename(df, mapping) ==
    LET renamed(name) ==
            IF \E m \in 1..Len(mapping) : mapping[m][1] = name
            THEN mapping[CHOOSE m \in 1..Len(mapping) : mapping[m][1] = name][2]
            ELSE name
        cols == [c \in 1..Len(df.columns) |-> renamed(df.columns[c])]
    IN  IF ~df.ok THEN Failed
        ELSE IF \E m \in 1..Len(mapping) : ~HasColumn(df, mapping[m][1]) THEN Failed
        ELSE IF \E c, d \in 1..Len(cols) : c # d /\ cols[c] = cols[d] THEN Failed
        ELSE Frame(cols, df.rows)

\* the strings of the example responses in the order of their code points
Collation ==
    <<"AAA", "AAH", "AB", "Aachen", "Anaa", "Anaa Airport", "Australia",
      "BONZA AVIATION PTY LTD", "Merzbruck Airport", "Sweden", "T2",
      "West Atlantic Sweden AB", "extra">>

StrLess(a, b) ==
    (CHOOSE i \in 1..Len(Collation) : Collation[i] = a)
        < (CHOOSE i \in 1..Len(Collation) : Collation[i] = b)

\* ascending order of cells: null sorts first
CellLess(a, b) == b # <<>> /\ (a = <<>> \/ StrLess(a[1], b[1]))

\* the order of rows by the key columns at positions kp
RowLess(r1, r2, kp) ==
    \E i \in 1..Len(kp) :
        /\ CellLess(r1[kp[i]], r2[kp[i]])
        /\ \A j \in 1..(i - 1) : r1[kp[j]] = r2[kp[j]]

\* the sequences that hold row x at some place of the sorted sequence s
\* and are sorted
Insertions(x, s, kp) ==
    { SubSeq(s, 1, q) \o <<x>> \o SubSeq(s, q + 1, Len(s)) :
        q \in { q \in 0..Len(s) :
                  /\ \A i \in 1..q : ~RowLess(x, s[i], kp)
                  /\ \A i \in (q + 1)..Len(s) : ~RowLess(s[i], x, kp) } }

\* every arrangement of rows that ascends by the key
RECURSIVE Sorted(_, _)
Sorted(rows, kp) ==
    IF rows = <<>> THEN {<<>>}
    ELSE UNION { Insertions(Head(rows), s, kp) : s \in Sorted(Tail(rows), kp) }

\* df.sort(by): the frames the sort may return
sort(df, by) ==
    LET kp == [i \in 1..Len(by) |-> CHOOSE c \in 1..Len(df.columns) : df.columns[c] = by[i]]
    IN  IF ~df.ok \/ \E i \in 1..Len(by) : ~HasColumn(df, by[i])
        THEN {Failed}
        ELSE {Frame(df.columns, rows) : rows \in Sorted(df.rows, kp)}

\* process_airport_data / process_carrier_data on a file with these lines
process_data(ct, lines) ==
    sort(rename(unique(read_ndjson(lines)), RenameMap(ct)), SortKey(ct))

\* the sort keys of process_airport.py and process_carrier.py
SortKeyOfScript(ct) ==
    IF ct = "CARRIER"
    THEN <<"iata", "country_or_territory">>
    ELSE <<"iata", "city_name">>

\* process_airport_data of process_airport.py and of process_carrier.py
process_data_of_script(ct, lines) ==
    sort(rename(unique(read_ndjson(lines)), RenameMap(ct)), SortKeyOfScript(ct))

(***************************************************************************)
(* The crawl: process_and_save_data(code_type)                             *)
(***************************************************************************)
VARIABLES
    code_type,  \* the argument of process_and_save_data
    pc,         \* "start", "loop", "get", "handle", "done", "aborted"
    files,      \* file name -> the lines of the file
    gen,        \* the generator the driver's for loop iterates
    idx,        \* history: how many codes the driver has pulled from it
    code,       \* the code being processed
    attempt,    \* the retry loop's variable
    result,     \* how the current fetch ended
    processed,  \* the driver's counter
    events,     \* the log records emitted for the current code
    gets,       \* history: GETs issued by the current fetch
    sleeps,     \* history: sleep(RETRY_DELAY) calls of the current fetch
    resps,      \* history: the responses the current fetch received
    snapshot,   \* history: the files when the driver pulled the current code
    base,       \* history: the kind's file when the crawl started
    fetched,    \* history: the codes the fetch was invoked for, in order
    returned,   \* history: the records the fetches of this crawl returned
    run,        \* 1 in the first run of the program, 2 in a re-run
    catalog,    \* the remote: answers at will, or the same answer for a code every time
    completed,  \* history: the kinds whose crawl has logged its completion
    listed,     \* a generator that is listed on its own: list(generate_codes(n))
    yielded,    \* the codes it has yielded so far
    npc,        \* main() of a normalisation script: "off", "main", "checked",
                \* "processed", "saved", "exit1" (sys.exit(1)), "raised"
    argv,       \* sys.argv of the script
    disk,       \* path -> whether the file exists, and its lines
    frame,      \* the DataFrame main() holds in result
    launched,   \* history: the disk when the script was launched
    readlog     \* history: whether the script has read its input file

crawlvars == <<code_type, pc, files, gen, idx, code, attempt, result, processed, events,
               gets, sleeps, resps, snapshot, base, fetched, returned, run, catalog,
               pool, completed>>

enumvars == <<listed, yielded>>

normvars == <<npc, argv, disk, frame, launched, readlog>>

vars == <<crawlvars, enumvars, normvars>>

file_path == FilePath(code_type)

Event(level, what, arg) == [level |-> level, what |-> what, arg |-> arg]

\* a line an earlier run left in the file
OldLine(ct) == json_dumps(ParseRows(TableDoc(HeaderCells(ct), <<RowA(ct)>>))[1])

\* a remote whose answer to a GET may be any response
Live == [stable |-> FALSE, cyclic |-> FALSE, answers |-> <<>>]

\* a remote that answers the i-th code of the code space with answers[i]
\* whenever it is asked, and the codes after those with a body without table
Stable(answers) == [stable |-> TRUE, cyclic |-> FALSE, answers |-> answers]

\* a remote that answers the i-th code with answers[i], going round the
\* answers again and again
Cyclic(answers) == [stable |-> TRUE, cyclic |-> TRUE, answers |-> answers]

\* what the remote may answer to a GET for the code being processed
Answers ==
    IF catalog.stable
    THEN {IF catalog.cyclic
          THEN catalog.answers[((idx - 1) % Len(catalog.answers)) + 1]
          ELSE IF idx <= Len(catalog.answers)
          THEN catalog.answers[idx]
          ELSE [status |-> "ok", doc |-> NoTableDoc]}
    ELSE Responses(code_type)

\* os.path.splitext(path)[0] of the paths the model knows
Roots ==
    LET logs == {"carrier_data_full", "airport_data_full"}
        once == {r \o "_processed" : r \in logs}
    IN  logs \cup once \cup {r \o "_processed" : r \in once}

Paths == {r \o ".jsonl" : r \in Roots}

\* os.path.splitext(path)
splitext(path) == <<CHOOSE r \in Roots : r \o ".jsonl" = path, ".jsonl">>

\* os.path.splitext(file_path)[0] + "_processed.jsonl"
output_path(path) == splitext(path)[1] \o "_processed.jsonl"

Absent == [exists |-> FALSE, lines |-> <<>>]

File(lines) == [exists |-> TRUE, lines |-> lines]

\* no normalisation script is running
NormOff ==
    /\ npc = "off"
    /\ argv = <<>>
    /\ disk = [p \in Paths |-> Absent]
    /\ frame = Failed
    /\ launched = disk
    /\ readlog = FALSE

\* the state of everything but the files and the remote, before the call
InitCrawl ==
    /\ code_type \in CodeType
    /\ pc = "start"
    /\ run = 1
    /\ gen = generate_codes(0)
    /\ idx = 0
    /\ code = ""
    /\ attempt = 0
    /\ result = NoOutcome
    /\ processed = 0
    /\ events = <<>>
    /\ gets = 0
    /\ sleeps = 0
    /\ resps = <<>>
    /\ base = <<>>
    /\ fetched = <<>>
    /\ returned = <<>>
    /\ completed = {}
    /\ listed = generate_codes(0)
    /\ yielded = <<>>

Init ==
    /\ InitCrawl
    /\ NormOff
    /\ pool = Pool(NLetters, NDigits)
    /\ catalog = Live
    /\ \E old \in {<<>>, <<OldLine(code_type)>>} :
          files = [f \in {CARRIER_FILE, AIRPORT_FILE} |->
                      IF f = FilePath(code_type) THEN old ELSE <<>>]
    /\ snapshot = files

\* processed = 0; file_path = ...; the generator is created
Start ==
    /\ pc = "start"
    /\ pc' = "loop"
    /\ processed' = 0
    /\ gen' = generate_codes(CodeLength(code_type))
    /\ idx' = 0
    /\ base' = files[file_path]
    /\ fetched' = <<>>
    /\ returned' = <<>>
    /\ snapshot' = files
    /\ UNCHANGED <<code_type, files, code, attempt, result, events, gets, sleeps, resps,
                   run, catalog, pool, completed>>
    /\ UNCHANGED <<enumvars, normvars>>

\* for attempt in range(MAX_RETRIES): an empty range falls through to "return []"
LoopEntry(a) ==
    IF a < MAX_RETRIES
    THEN [pc |-> "get", result |-> NoOutcome]
    ELSE [pc |-> "handle", result |-> Outcome("return", <<>>)]

\* the driver pulls the next code and calls fetch_and_process_data(code, code_type)
NextCode ==
    /\ pc = "loop"
    /\ HasNext(gen)
    /\ gen' = Advance(gen)
    /\ idx' = idx + 1
    /\ code' = Current(Advance(gen))
    /\ fetched' = Append(fetched, Current(Advance(gen)))
    /\ attempt' = 0
    /\ pc' = LoopEntry(0).pc
    /\ result' = LoopEntry(0).result
    /\ events' = <<>>
    /\ gets' = 0
    /\ sleeps' = 0
    /\ resps' = <<>>
    /\ snapshot' = files
    /\ UNCHANGED <<code_type, files, processed, base, returned, run, catalog,
                   pool, completed>>
    /\ UNCHANGED <<enumvars, normvars>>

\* the rows a response carries, for the bound on the log
RowCount(resp) == IF resp.status = "ok" THEN Len(resp.doc.rows) ELSE 0

\* the lines the two logs hold
TotalLines == Len(files[CARRIER_FILE]) + Len(files[AIRPORT_FILE])

\* one pass of the retry loop: requests.get, raise_for_status, the parse
Get ==
    /\ pc = "get"
    /\ \E resp \in Answers :
          /\ catalog.stable \/ TotalLines + RowCount(resp) <= MaxLog
          /\ LET out == Attempt(resp, attempt)
             IN  /\ gets' = gets + 1
                 /\ resps' = Append(resps, resp)
                 /\ IF out.type = "retry"
                    THEN /\ sleeps' = sleeps + 1
                         /\ events' = Append(events, Event("WARNING", "retrying", attempt + 1))
                         /\ attempt' = attempt + 1
                         /\ pc' = LoopEntry(attempt + 1).pc
                         /\ result' = LoopEntry(attempt + 1).result
                         /\ UNCHANGED returned
                    ELSE /\ result' = out
                         /\ pc' = "handle"
                         /\ returned' = IF out.type = "return"
                                        THEN returned \o out.rows
                                        ELSE returned
                         /\ UNCHANGED <<sleeps, events, attempt>>
    /\ UNCHANGED <<code_type, files, gen, idx, code, processed, snapshot, base, fetched,
                   run, catalog, pool, completed>>
    /\ UNCHANGED <<enumvars, normvars>>

\* the file opened with mode "w"
WriteAll_Truncate(lines, rows) == [i \in 1..Len(rows) |-> json_dumps(rows[i])]

\* the items written last to first
WriteAll_Reversed(lines, rows) ==
    lines \o [i \in 1..Len(rows) |-> json_dumps(rows[Len(rows) + 1 - i])]

\* with open(file_path, "a"): for item in result: file.write(json.dumps(item) + "\n")
WriteAll(lines, rows) == lines \o [i \in 1..Len(rows) |-> json_dumps(rows[i])]

\* a driver that tests the counter before it has counted the code
Progress_BeforeIncrement(n, ct) ==
    IF (n - 1) % REPORT_FREQUENCY = 0 THEN <<Event("INFO", "progress", <<n, ct>>)>> ELSE <<>>

\* if processed % REPORT_FREQUENCY == 0: logging.info("Processed ...")
Progress(n, ct) ==
    IF n % REPORT_FREQUENCY = 0 THEN <<Event("INFO", "progress", <<n, ct>>)>> ELSE <<>>

\* a try statement without the except RequestException clause
Caught_OnlyValueError(type) == type \in {"ValueError"}

\* which exceptions of the fetch the driver's try statement catches
Caught(type) == type \in {"RequestException", "ValueError"}

\* except RequestException: logging.error; except ValueError: logging.info
HandlerLog(res, c) ==
    IF res.type = "RequestException" THEN <<Event("ERROR", "failed", c)>>
    ELSE IF res.type = "ValueError" THEN <<Event("INFO", "no record", c)>>
    ELSE <<>>

\* a driver that writes an empty record for a code whose fetch raised
AfterHandle_Placeholder(res, lines) ==
    IF res.type = "return" THEN lines \o [i \in 1..Len(res.rows) |-> json_dumps(res.rows[i])]
    ELSE Append(lines, json_dumps(<<>>))

\* the file after the try statement: the with block is reached only when the
\* fetch returned
AfterHandle(res, lines) ==
    IF res.type = "return" THEN WriteAll(lines, res.rows) ELSE lines

\* the driver's handling of how the fetch ended: the append, the except
\* clauses, the counter and the progress line; an exception that no clause
\* catches leaves process_and_save_data
Handle ==
    /\ pc = "handle"
    /\ files' = [files EXCEPT ![file_path] = AfterHandle(result, @)]
    /\ IF result.type = "return" \/ Caught(result.type)
       THEN /\ processed' = processed + 1
            /\ events' = events \o HandlerLog(result, code)
                                \o Progress(processed + 1, code_type)
            /\ pc' = "loop"
       ELSE /\ pc' = "aborted"
            /\ UNCHANGED <<processed, events>>
    /\ UNCHANGED <<code_type, gen, idx, code, attempt, result, gets, sleeps, resps,
                   snapshot, base, fetched, returned, run, catalog, pool, completed>>
    /\ UNCHANGED <<enumvars, normvars>>

\* the generator is exhausted: logging.info("Data extraction for ... completed")
Finish ==
    /\ pc = "loop"
    /\ ~HasNext(gen)
    /\ pc' = "done"
    /\ events' = <<Event("INFO", "completed", <<code_type, file_path>>)>>
    /\ completed' = completed \cup {code_type}
    /\ UNCHANGED <<code_type, files, gen, idx, code, attempt, result, processed,
                   gets, sleeps, resps, snapshot, base, fetched, returned, run, catalog,
                   pool>>
    /\ UNCHANGED <<enumvars, normvars>>

Next == Start \/ NextCode \/ Get \/ Handle \/ Finish

Spec == Init /\ [][Next]_vars

(***************************************************************************)
(* A crawl that is stopped between two codes and run again over the whole  *)
(* code space, against a remote that answers a code the same way each time *)
(***************************************************************************)
InitRerun ==
    /\ InitCrawl
    /\ NormOff
    /\ pool = Pool(NLetters, NDigits)
    /\ \E a, b \in Responses(code_type) : catalog = Stable(<<a, b>>)
    /\ files = [f \in {CARRIER_FILE, AIRPORT_FILE} |-> <<>>]
    /\ snapshot = files

\* the process is terminated between two codes
Stop ==
    /\ pc = "loop"
    /\ run = 1
    /\ pc' = "stopped"
    /\ UNCHANGED <<code_type, files, gen, idx, code, attempt, result, processed, events,
                   gets, sleeps, resps, snapshot, base, fetched, returned, run, catalog,
                   pool, completed>>
    /\ UNCHANGED <<enumvars, normvars>>

\* the program is started again: only the files are left of the first run
Rerun ==
    /\ pc = "stopped"
    /\ pc' = "start"
    /\ run' = 2
    /\ result' = NoOutcome
    /\ events' = <<>>
    /\ resps' = <<>>
    /\ UNCHANGED <<code_type, files, gen, idx, code, attempt, processed,
                   gets, sleeps, snapshot, base, fetched, returned, catalog,
                   pool, completed>>
    /\ UNCHANGED <<enumvars, normvars>>

NextRerun == Start \/ NextCode \/ Get \/ Handle \/ Finish \/ Stop \/ Rerun

SpecRerun == InitRerun /\ [][NextRerun]_vars

(***************************************************************************)
(* The module run as a script: the CARRIER crawl, then the AIRPORT crawl   *)
(***************************************************************************)
MainInit ==
    /\ InitCrawl
    /\ NormOff
    /\ code_type = "CARRIER"
    /\ pool = Pool(NLetters, NDigits)
    /\ catalog = Live
    /\ files = [f \in {CARRIER_FILE, AIRPORT_FILE} |-> <<>>]
    /\ snapshot = files

\* process_and_save_data(CodeType.CARRIER) has returned:
\* process_and_save_data(CodeType.AIRPORT) is called
CallAirport ==
    /\ pc = "done"
    /\ code_type = "CARRIER"
    /\ code_type' = "AIRPORT"
    /\ pc' = "start"
    /\ code' = ""
    /\ attempt' = 0
    /\ result' = NoOutcome
    /\ events' = <<>>
    /\ gets' = 0
    /\ sleeps' = 0
    /\ resps' = <<>>
    /\ UNCHANGED <<files, gen, idx, processed, snapshot, base, fetched, returned,
                   run, catalog, pool, completed>>
    /\ UNCHANGED <<enumvars, normvars>>

MainNext == Start \/ NextCode \/ Get \/ Handle \/ Finish \/ CallAirport

MainSpec == MainInit /\ [][MainNext]_vars

(***************************************************************************)
(* A crawl long enough to report its progress: the CARRIER crawl over the  *)
(* whole of ascii_uppercase + digits, and the AIRPORT crawl over a pool of *)
(* one letter and one digit more than the other crawls of the model have.  *)
(* The remote answers with a record, with no table and with a transport    *)
(* failure in turn.                                                        *)
(***************************************************************************)
\* the answers the remote goes round, from the k-th on
Round(ct, k) ==
    LET answers == << [status |-> "ok", doc |-> TableDoc(HeaderCells(ct), <<RowA(ct)>>)],
                      [status |-> "ok", doc |-> NoTableDoc],
                      TransportFailure >>
    IN  [i \in 1..Len(answers) |-> answers[((i + k - 2) % Len(answers)) + 1]]

CountInit ==
    /\ InitCrawl
    /\ NormOff
    /\ pool = IF code_type = "CARRIER"
              THEN Pool(Len(ascii_uppercase), Len(digits))
              ELSE Pool(NLetters + 1, NDigits + 1)
    /\ \E k \in 1..3 : catalog = Cyclic(Round(code_type, k))
    /\ files = [f \in {CARRIER_FILE, AIRPORT_FILE} |-> <<>>]
    /\ snapshot = files

CountSpec == CountInit /\ [][Next]_vars

(***************************************************************************)
(* list(generate_codes(length)): the generator listed on its own           *)
(***************************************************************************)
EnumInit ==
    /\ InitCrawl
    /\ NormOff
    /\ pool = Pool(NLetters, NDigits)
    /\ code_type = "CARRIER"
    /\ catalog = Live
    /\ files = [f \in {CARRIER_FILE, AIRPORT_FILE} |-> <<>>]
    /\ snapshot = files

EnumStart ==
    /\ pc = "start"
    /\ listed = generate_codes(0)
    /\ yielded = <<>>
    /\ \E n \in 1..MaxLength : listed' = generate_codes(n)
    /\ UNCHANGED <<crawlvars, yielded, normvars>>

\* list(...) takes the next code from the generator
Yield ==
    /\ listed.repeat > 0
    /\ HasNext(listed)
    /\ listed' = Advance(listed)
    /\ yielded' = Append(yielded, Current(Advance(listed)))
    /\ UNCHANGED <<crawlvars, normvars>>

EnumNext == EnumStart \/ Yield

EnumSpec == EnumInit /\ [][EnumNext]_vars

(***************************************************************************)
(* main() of process.py, process_airport.py and process_carrier.py run on   *)
(* the crawl log of a kind                                                 *)
(***************************************************************************)
\* the records a crawl of the kind may have written
Records(ct) ==
    { ParseRows(TableDoc(HeaderCells(ct), <<row>>))[1] :
        row \in {RowA(ct), RowB(ct), RowC(ct), ShortRow(ct), LongRow(ct)} }

\* the lines a log may hold
LogLines(ct) == {json_dumps(r) : r \in Records(ct)} \cup {BadLine}

Logs(ct) == UNION {[1..n -> LogLines(ct)] : n \in 0..MaxLines}

\* the command lines: process.py takes a mode and a path, the other two a path
Invocations(ct) ==
    LET path == FilePath(ct)
    IN  {<<"process.py", m, path>> : m \in {"air", "carrier", "other"}}
            \cup {<<"process.py">>}
            \cup {<<IF ct = "CARRIER" THEN "process_carrier.py" ELSE "process_airport.py",
                    path>>}

\* a line an earlier normalisation left in the output file
OldOutput(ct) == <<json_dumps(<< <<"iata", "ZZ">> >>)>>

NormInit ==
    /\ InitCrawl
    /\ pool = Pool(NLetters, NDigits)
    /\ catalog = Live
    /\ files = [f \in {CARRIER_FILE, AIRPORT_FILE} |-> <<>>]
    /\ snapshot = files
    /\ npc = "main"
    /\ argv \in Invocations(code_type)
    /\ \E log \in {Absent} \cup {File(l) : l \in Logs(code_type)},
          old \in {Absent, File(OldOutput(code_type))} :
          disk = [p \in Paths |->
                    IF p = FilePath(code_type) THEN log
                    ELSE IF p = output_path(FilePath(code_type)) THEN old
                    ELSE Absent]
    /\ frame = Failed
    /\ launched = disk
    /\ readlog = FALSE

\* how many arguments the script wants, the script's name counted
Argc(script) == IF script = "process.py" THEN 3 ELSE 2

\* file_path = sys.argv[2] in process.py and sys.argv[1] in the other two
input_path == argv[Len(argv)]

\* the kind whose function main() calls; "none" for a mode it does not know
Dispatch ==
    IF argv[1] = "process_airport.py" THEN "AIRPORT"
    ELSE IF argv[1] = "process_carrier.py" THEN "CARRIER"
    ELSE IF argv[2] = "air" THEN "AIRPORT"
    ELSE IF argv[2] = "carrier" THEN "CARRIER"
    ELSE "none"

\* the frames the function main() calls may return
Processed(script, ct, lines) ==
    IF script = "process.py" THEN process_data(ct, lines)
    ELSE process_data_of_script(ct, lines)

\* the checks at the head of main(): the argument count, then os.path.exists
NormCheck ==
    /\ npc = "main"
    /\ npc' = IF Len(argv) # Argc(argv[1]) THEN "exit1"
              ELSE IF ~disk[input_path].exists THEN "exit1"
              ELSE "checked"
    /\ UNCHANGED <<argv, disk, frame, launched, readlog>>
    /\ UNCHANGED <<crawlvars, enumvars>>

\* the dispatch on the mode and the call of process_*_data
NormProcess ==
    /\ npc = "checked"
    /\ IF Dispatch = "none"
       THEN /\ npc' = "exit1"
            /\ UNCHANGED <<frame, readlog>>
       ELSE /\ readlog' = TRUE
            /\ \E df \in Processed(argv[1], Dispatch, disk[input_path].lines) :
                  /\ frame' = df
                  /\ npc' = IF df.ok THEN "processed" ELSE "raised"
    /\ UNCHANGED <<argv, disk, launched>>
    /\ UNCHANGED <<crawlvars, enumvars>>

\* result.write_ndjson(output_path)
NormSave ==
    /\ npc = "processed"
    /\ disk' = [disk EXCEPT ![output_path(input_path)] = File(write_ndjson(frame))]
    /\ npc' = "saved"
    /\ UNCHANGED <<argv, frame, launched, readlog>>
    /\ UNCHANGED <<crawlvars, enumvars>>

\* the script is run again, on the file it has just written
NormAgain ==
    /\ npc = "saved"
    /\ output_path(output_path(input_path)) \in Paths
    /\ argv' = [argv EXCEPT ![Len(argv)] = output_path(input_path)]
    /\ npc' = "main"
    /\ launched' = disk
    /\ readlog' = FALSE
    /\ UNCHANGED <<disk, frame>>
    /\ UNCHANGED <<crawlvars, enumvars>>

NormNext == NormCheck \/ NormProcess \/ NormSave \/ NormAgain

NormSpec == NormInit /\ [][NormNext]_vars

(***************************************************************************)
(* Properties                                                              *)
(***************************************************************************)
Last(seq) == seq[Len(seq)]

RECURSIVE Pow(_, _)
Pow(b, e) == IF e = 0 THEN 1 ELSE b * Pow(b, e - 1)

\* the size of the alphabet
K == Len(Alphabet)

\* the i-th string of length n over the alphabet in lexicographic order:
\* its characters are the digits of i - 1 written in base K
NthCode(n, i) == join([j \in 1..n |-> Alphabet[(((i - 1) \div Pow(K, n - j)) % K) + 1]])

\* how many codes the code space of a kind holds
SpaceSize(ct) == Pow(K, CodeLength(ct))

\* the code space of a kind, in lexicographic order
CodeSpace(ct) == [i \in 1..SpaceSize(ct) |-> NthCode(CodeLength(ct), i)]

Codes == CodeSpace(code_type)

\* cs are the first codes of the kind's code space, in its order
IsCodePrefix(cs, ct) ==
    /\ Len(cs) <= SpaceSize(ct)
    /\ \A i \in 1..Len(cs) : cs[i] = NthCode(CodeLength(ct), i)

IsPrefix(a, b) == Len(a) <= Len(b) /\ SubSeq(b, 1, Len(a)) = a

IsParsable(resp) == resp.status = "ok" /\ resp.doc.table /\ resp.doc.tbody

IsNoData(resp) == resp.status = "ok" /\ ~resp.doc.table

IsMalformed(resp) == resp.status = "ok" /\ resp.doc.table /\ ~resp.doc.tbody

AllFailed(rs, n) == \A i \in 1..n : rs[i] = TransportFailure

\* the records test_fetch_and_process_data_carrier expects
ExpectedCarrierData ==
    << << <<"Company name", "BONZA AVIATION PTY LTD">>,
          <<"Country / Territory", "Australia">>,
          <<"2-letter code", "AB">> >>,
       << <<"Company name", "West Atlantic Sweden AB">>,
          <<"Country / Territory", "Sweden">>,
          <<"2-letter code", "T2">> >> >>

\* C1: a fetch whose first j GETs (j < MAX_RETRIES) fail at transport level
\* and whose next GET brings a parsable table returns the records of that
\* response (for the two-row carrier example, the two expected records);
\* a fetch whose MAX_RETRIES GETs all fail raises the transport error and
\* returns no records.
C1_RetryThenResult ==
    pc = "handle" =>
        LET n == Len(resps)
        IN  /\ n <= MAX_RETRIES
            /\ (n >= 1 /\ AllFailed(resps, n - 1) /\ IsParsable(resps[n])) =>
                  /\ result = Outcome("return", ParseRows(resps[n].doc))
                  /\ Len(result.rows) = Len(resps[n].doc.rows)
                  /\ (resps[n].doc = TableDoc(HeaderCells("CARRIER"),
                                              <<RowA("CARRIER"), RowB("CARRIER")>>)
                        => result.rows = ExpectedCarrierData)
            /\ (n = MAX_RETRIES /\ AllFailed(resps, n)) =>
                  result = Outcome("RequestException", <<>>)
            /\ (n < MAX_RETRIES) => ~AllFailed(resps, n)

C1_Witness ==
    /\ pc = "handle"
    /\ Len(resps) = MAX_RETRIES
    /\ AllFailed(resps, MAX_RETRIES - 1)
    /\ result.type = "return"
    /\ result.rows = ExpectedCarrierData

\* a measure of the work a crawl has left
Remaining ==
    LET W == MAX_RETRIES + 2
        N == SpaceSize(code_type)
    IN  IF pc \in {"done", "aborted"} THEN 0
        ELSE IF pc \in {"start", "stopped"} THEN (N + 1) * W + 1
        ELSE IF pc = "loop" THEN (N - idx) * W + 1
        ELSE IF pc = "handle" THEN (N - idx) * W + 2
        ELSE (N - idx) * W + 2 + (MAX_RETRIES - attempt)

\* C2: when every fetch ends in a return, a ValueError or a RequestException,
\* the driver goes on to every later code and reaches the completed state:
\* only a fetch that ended otherwise stops the loop, a run that has not ended
\* can always take its next step (after a handled code, the pull of the next
\* code), every step brings the end nearer, and the completed state is
\* reached with every code fetched and counted.
C2_FailuresIsolated ==
    /\ [](/\ pc = "aborted" =>
                result.type \notin {"return", "ValueError", "RequestException"}
          /\ pc \notin {"done", "aborted"} => ENABLED Next
          /\ (pc = "loop" /\ idx < SpaceSize(code_type)) => ENABLED NextCode
          /\ (pc = "loop" /\ idx = SpaceSize(code_type)) => ENABLED Finish
          /\ pc = "done" => fetched = Codes /\ processed = SpaceSize(code_type))
    /\ [][Remaining' < Remaining]_vars

C2_Witness ==
    /\ pc = "done"
    /\ result.type = "RequestException"
    /\ returned # <<>>
    /\ fetched = Codes

\* C3: a response with a table.datatable and no <tbody> is handled like a
\* missing table: nothing is appended for the code, the skip is logged and
\* the driver goes on.
C3_MalformedSkipped ==
    (resps # <<>> /\ IsMalformed(Last(resps)) /\ pc # "handle") =>
        /\ pc \in {"loop", "done"}
        /\ files = snapshot
        /\ \E i \in 1..Len(events) : events[i].level = "INFO" /\ events[i].arg = code

\* C4: for a code whose fetch ends in ValueError or RequestException the
\* files are, once the driver is done with the code, what they were when it
\* pulled the code; and the fetch itself never changes them.
C4_FailureLeavesLog ==
    /\ pc \in {"get", "handle"} => files = snapshot
    /\ (pc \in {"loop", "done"} /\ result.type \in {"ValueError", "RequestException"})
          => files = snapshot

C4_Witness ==
    /\ pc = "loop"
    /\ result.type = "ValueError"
    /\ files[file_path] # <<>>
    /\ idx >= 2

\* C5: a response without a table.datatable is the last one of its fetch: the
\* fetch ends at once with the ValueError, with no further GET and no sleep
\* after it, whatever number of transport failures came before.
C5_NoDataNotRetried ==
    \A i \in 1..Len(resps) :
        IsNoData(resps[i]) =>
            /\ i = Len(resps)
            /\ pc # "get"
            /\ result = Outcome("ValueError", <<>>)
            /\ AllFailed(resps, i - 1)
            /\ gets = i
            /\ sleeps = i - 1

C5_Witness ==
    /\ pc = "handle"
    /\ Len(resps) = MAX_RETRIES
    /\ IsNoData(Last(resps))
    /\ sleeps = MAX_RETRIES - 1

\* the character c repeated n times
Repeat(c, n) == join([j \in 1..n |-> c])

\* C6: listing generate_codes(n) over the alphabet (the letters, then the
\* digits; K characters) yields exactly K^n strings, pairwise distinct, each
\* of length n, the i-th being the i-th string over the alphabet in
\* lexicographic order; the first is "A" repeated n times and the last is
\* "9" repeated n times.
C6_Enumeration ==
    LET n == listed.repeat
        m == Len(yielded)
    IN  n > 0 =>
            /\ K = NLetters + NDigits
            /\ m <= Pow(K, n)
            /\ m > 0 =>
                  /\ Len(yielded[m]) = n
                  /\ yielded[m] = NthCode(n, m)
                  /\ \A i \in 1..(m - 1) : yielded[i] # yielded[m]
            /\ ~HasNext(listed) =>
                  /\ m = Pow(K, n)
                  /\ yielded[1] = Repeat("A", n)
                  /\ yielded[m] = Repeat("9", n)

C6_Witness ==
    /\ listed.repeat = 3
    /\ ~HasNext(listed)
    /\ Len(yielded) = K * K * K
    /\ yielded[2] # yielded[1]

\* C7: one run of process_and_save_data fetches every code of the kind's
\* code space exactly once, in enumeration order and no other code, whatever
\* the remote answers, and signals completion only after the last code: the
\* codes fetched so far are a prefix of the code space, and a run that has
\* ended has fetched all of it and has completed.
C7_EveryCodeOnce ==
    /\ IsCodePrefix(fetched, code_type)
    /\ pc \in {"done", "aborted"} => (pc = "done" /\ fetched = Codes)

\* the part of C7 that does not depend on how a run ends: the codes fetched
\* are a prefix of the code space, and completion is signalled only when all
\* of them have been fetched and counted
C7_OrderAndCompletion ==
    /\ IsCodePrefix(fetched, code_type)
    /\ Len(fetched) = idx
    /\ pc = "done" => (fetched = Codes /\ processed = SpaceSize(code_type))

\* C8: at every point of a crawl the lines appended to the log since the
\* crawl started are the records the fetches have returned so far, in the
\* order of the fetches (which is the enumeration order) and, within one
\* fetch, in the order of the returned list; the list of a fetch that has
\* just returned is not yet written.
C8_LogIsConcatenation ==
    LET lines == [i \in 1..Len(returned) |-> json_dumps(returned[i])]
        pending == IF pc = "handle" /\ result.type = "return" THEN Len(result.rows) ELSE 0
    IN  pc # "start" =>
            /\ IsCodePrefix(fetched, code_type)
            /\ files[file_path] = base \o SubSeq(lines, 1, Len(lines) - pending)
            /\ (pc = "handle" /\ result.type = "return" /\ resps # <<>>) =>
                  /\ result.rows = ParseRows(Last(resps).doc)
                  /\ SubSeq(returned, Len(returned) - pending + 1, Len(returned)) = result.rows

\* two codes have each brought one record, the second after a retry
C8_Witness ==
    /\ pc = "loop"
    /\ base = <<>>
    /\ idx >= 2
    /\ Len(result.rows) = 1
    /\ Len(resps) = 2
    /\ Len(files[file_path]) = 2
    /\ files[file_path][1] # files[file_path][2]

\* C9: the crawler only appends: in every step, for each file, the lines
\* before the step are a prefix of the lines after it, also when the file
\* held lines of an earlier run when the crawl started.
C9_AppendOnly ==
    [][\A f \in DOMAIN files : IsPrefix(files[f], files'[f])]_vars

C9_Witness ==
    /\ pc = "loop"
    /\ base # <<>>
    /\ Len(files[file_path]) > Len(base)
    /\ IsPrefix(base, files[file_path])

\* the lines the current run has appended: the log one uninterrupted crawl
\* leaves in an empty file, once the run has ended
AppendedByRun == SubSeq(files[file_path], Len(base) + 1, Len(files[file_path]))

\* C10: with a remote that answers each code the same way on every run, a
\* crawl stopped between two codes and then run again over the whole code
\* space leaves a log whose normalisation gives what the normalisation of
\* the log of one uninterrupted crawl gives.
C10_RerunAbsorbed ==
    (run = 2 /\ pc \in {"done", "aborted"}) =>
        /\ IsPrefix(base, AppendedByRun)
        /\ process_data(code_type, files[file_path])
              = process_data(code_type, AppendedByRun)

\* the first run appended two records before it was stopped, the re-run
\* appended them again with others, and the normalisation succeeds
C10_Witness ==
    /\ run = 2
    /\ pc = "done"
    /\ Len(base) = 2
    /\ Len(AppendedByRun) > 2
    /\ \E df \in process_data(code_type, files[file_path]) :
          df.ok /\ Len(df.rows) < Len(AppendedByRun)

\* the JSON object of a line as the set of its key/value pairs
PairsOf(obj) == {obj[i] : i \in 1..Len(obj)}

\* the name the kind's mapping gives a key
TargetName(ct, key) ==
    LET m == RenameMap(ct)
    IN  IF \E i \in 1..Len(m) : m[i][1] = key
        THEN m[CHOOSE i \in 1..Len(m) : m[i][1] = key][2]
        ELSE key

\* a record with its keys renamed
RenamedRecord(ct, obj) == {<<TargetName(ct, kv[1]), kv[2]>> : kv \in PairsOf(obj)}

\* the record of a row of a frame: its columns that are not null
RecordOfRow(df, row) ==
    {<<df.columns[c], row[c][1]>> : c \in {c \in 1..Len(row) : row[c] # <<>>}}

\* the records of a frame
FrameRecords(df) == {RecordOfRow(df, df.rows[r]) : r \in 1..Len(df.rows)}

\* the lines the running script was given
InputLines == launched[input_path].lines

\* C11: the frame a normalisation returns holds no two equal records, and
\* its records are the renamed records of the log: every record of the log,
\* however often it occurs, is there once, and no other record is.
C11_Deduplicated ==
    npc \in {"processed", "saved"} =>
        /\ \A q, r \in 1..Len(frame.rows) : q # r => frame.rows[q] # frame.rows[r]
        /\ Cardinality(FrameRecords(frame)) = Len(frame.rows)
        /\ FrameRecords(frame)
              = {RenamedRecord(Dispatch, InputLines[i].obj) : i \in 1..Len(InputLines)}

\* a log of three lines, two of them equal, gave a frame of two rows
C11_Witness ==
    /\ npc = "processed"
    /\ Len(InputLines) = 3
    /\ \E i, j \in 1..3 : i # j /\ InputLines[i] = InputLines[j]
    /\ Len(frame.rows) = 2

\* where the kind's three key fields stand among the columns of a frame
KeyPositions(df, ct) ==
    [i \in 1..Len(SortKey(ct)) |->
        CHOOSE c \in 1..Len(df.columns) : df.columns[c] = SortKey(ct)[i]]

\* the rows of a frame ascend by the kind's three key fields
AscendsByFullKey(df, ct) ==
    \A q, r \in 1..Len(df.rows) :
        q < r => ~RowLess(df.rows[r], df.rows[q], KeyPositions(df, ct))

\* C12: whichever script produced it, the frame a normalisation returns is
\* sorted ascending by the kind's full three-field key, records that tie on
\* the first two key fields included.
C12_SortedByFullKey ==
    npc \in {"processed", "saved"} => AscendsByFullKey(frame, Dispatch)

\* the part of C12 that holds: the frames of process.py are sorted by the
\* full key
C12_ProcessPySorted ==
    (npc \in {"processed", "saved"} /\ argv[1] = "process.py")
        => AscendsByFullKey(frame, Dispatch)

\* the script was called with the number of arguments it wants
WellCalled == Len(argv) = Argc(argv[1])

\* C13: a normalisation whose input file is missing ends in an error state
\* without having read anything, and one whose log holds a line that is no
\* JSON object ends in an error state as well; a run that ends in an error
\* state leaves every file, the output file too, as it was at the launch.
C13_FailureWritesNothing ==
    /\ npc \in {"exit1", "raised"} => disk = launched
    /\ npc \in {"main", "checked", "processed"} => disk = launched
    /\ (WellCalled /\ ~launched[input_path].exists) =>
          /\ npc \in {"main", "exit1"}
          /\ ~readlog
    /\ (WellCalled /\ \E i \in 1..Len(InputLines) : ~IsJsonLine(InputLines[i])) =>
          npc \in {"main", "checked", "exit1", "raised"}

\* a log whose second line is no JSON made the call raise, and the output
\* file of an earlier run is still there
C13_Witness ==
    /\ npc = "raised"
    /\ Len(InputLines) = 2
    /\ IsJsonLine(InputLines[1])
    /\ ~IsJsonLine(InputLines[2])
    /\ launched[output_path(input_path)].exists
    /\ disk[output_path(input_path)] = launched[output_path(input_path)]

\* the keys that occur in the records of the lines
KeysOf(lines) == UNION {{kv[1] : kv \in PairsOf(lines[i].obj)} : i \in 1..Len(lines)}

\* the script runs on the crawl log of the kind it normalises, every line of
\* which is a JSON object
OnCrawlLog ==
    /\ WellCalled
    /\ Dispatch = code_type
    /\ input_path = FilePath(code_type)
    /\ launched[input_path].exists
    /\ InputLines # <<>>
    /\ \A i \in 1..Len(InputLines) : IsJsonLine(InputLines[i])

\* C14: on a crawl log in which one of the kind's three source columns occurs
\* in no record, the normalisation completes: the columns that are present
\* are renamed and every other column keeps its name.
C14_AbsentColumnsTolerated ==
    (/\ OnCrawlLog
     /\ \E m \in 1..Len(RenameMap(code_type)) :
           RenameMap(code_type)[m][1] \notin KeysOf(InputLines)
     /\ npc \notin {"main", "checked"}) =>
        /\ npc \in {"processed", "saved"}
        /\ {frame.columns[c] : c \in 1..Len(frame.columns)}
              = {TargetName(code_type, k) : k \in KeysOf(InputLines)}

\* the script runs on the file its first run has written
OnOwnOutput ==
    /\ WellCalled
    /\ Dispatch = code_type
    /\ input_path = output_path(FilePath(code_type))

\* C15: a normalisation run on the dataset the same normalisation has written
\* completes, and its frame holds the records of that dataset under the same
\* names and in the same order.
C15_Idempotent ==
    (OnOwnOutput /\ npc \notin {"main", "checked"}) =>
        /\ npc \in {"processed", "saved"}
        /\ write_ndjson(frame) = InputLines

\* the three source columns of a kind
SourceKeys(ct) ==
    IF ct = "CARRIER"
    THEN {"Company name", "Country / Territory", "2-letter code"}
    ELSE {"City Name", "Airport Name", "3-letter location code"}

\* the three keys of a canonical record of a kind
TargetKeys(ct) ==
    IF ct = "CARRIER"
    THEN {"iata", "country_or_territory", "company_name"}
    ELSE {"iata", "city_name", "airport_name"}

\* the canonical record of a full-row record
Canonical(ct, obj) ==
    IF ct = "CARRIER"
    THEN { <<"iata", ValueOf(obj, "2-letter code")>>,
           <<"country_or_territory", ValueOf(obj, "Country / Territory")>>,
           <<"company_name", ValueOf(obj, "Company name")>> }
    ELSE { <<"iata", ValueOf(obj, "3-letter location code")>>,
           <<"city_name", ValueOf(obj, "City Name")>>,
           <<"airport_name", ValueOf(obj, "Airport Name")>> }

\* every record of the log has exactly the kind's three source columns
FullRowsOnly ==
    \A i \in 1..Len(InputLines) :
        {kv[1] : kv \in PairsOf(InputLines[i].obj)} = SourceKeys(code_type)

\* C16: the normalisation of a crawl log of full-row records completes, and
\* every record of its frame has exactly the kind's three target keys, each
\* with the value the record of the log has under the source key; no source
\* key is left.
C16_RoundTrip ==
    (OnCrawlLog /\ FullRowsOnly /\ npc \notin {"main", "checked"}) =>
        /\ npc \in {"processed", "saved"}
        /\ \A r \in 1..Len(frame.rows) :
              {kv[1] : kv \in RecordOfRow(frame, frame.rows[r])} = TargetKeys(code_type)
        /\ {frame.columns[c] : c \in 1..Len(frame.columns)} = TargetKeys(code_type)
        /\ FrameRecords(frame)
              = {Canonical(code_type, InputLines[i].obj) : i \in 1..Len(InputLines)}
        /\ npc = "saved" =>
              {PairsOf(disk[output_path(input_path)].lines[i].obj) :
                  i \in 1..Len(disk[output_path(input_path)].lines)}
                = FrameRecords(frame)

\* three different full-row records were normalised and written
C16_Witness ==
    /\ OnCrawlLog
    /\ FullRowsOnly
    /\ npc = "saved"
    /\ Len(InputLines) = 3
    /\ Len(frame.rows) = 3

\* the GETs of the current fetch that failed and were followed by another
\* attempt
FollowedFailures ==
    {i \in 1..Len(resps) :
        resps[i] = TransportFailure /\ (i < Len(resps) \/ pc = "get")}

\* C17: a fetch issues at least one GET and at most MAX_RETRIES; it sleeps
\* once after each failed GET that another attempt follows and at no other
\* time, so a fetch that has ended has slept one time less than it has
\* issued GETs: not after its last failed GET, and not after a GET that
\* brought an answer.
C17_GetsAndDelays ==
    /\ [](/\ gets = Len(resps)
          /\ gets <= MAX_RETRIES
          /\ sleeps = Cardinality(FollowedFailures)
          /\ pc = "get" => (gets < MAX_RETRIES /\ sleeps = gets)
          /\ pc = "handle" => (gets >= 1 /\ sleeps = gets - 1)
          /\ (pc = "handle" /\ result.type = "RequestException") => gets = MAX_RETRIES)
    /\ [][(sleeps' = sleeps + 1) <=> (pc = "get" /\ pc' = "get")]_vars

\* the last of MAX_RETRIES GETs has failed: the fetch raises, having slept
\* MAX_RETRIES - 1 times
C17_Witness ==
    /\ pc = "handle"
    /\ result.type = "RequestException"
    /\ gets = MAX_RETRIES
    /\ sleeps = MAX_RETRIES - 1

Min(a, b) == IF a < b THEN a ELSE b

\* the record that pairs the header names of a document with the cells of
\* one of its body rows, position by position
ZippedWithHeader(doc, row) ==
    [i \in 1..Min(Len(row), Len(doc.thead)) |-> <<strip(doc.thead[i]), strip(row[i])>>]

\* C18: a fetch that returns for a response with a table returns one record
\* for each body row, in the order of the rows, and the record of a row
\* pairs the i-th header name with the i-th trimmed cell of the row, up to
\* the shorter of the two: every key is a header name.
C18_KeysFromHeader ==
    (pc = "handle" /\ result.type = "return" /\ resps # <<>> /\ IsParsable(Last(resps))) =>
        LET doc == Last(resps).doc
        IN  /\ Len(result.rows) = Len(doc.rows)
            /\ \A r \in 1..Len(doc.rows) :
                  result.rows[r] = ZippedWithHeader(doc, doc.rows[r])

\* the part of C18 that holds: one record for each row, and for a row that
\* has no more cells than the header has names the record the claim describes
C18_RowsWithinHeader ==
    (pc = "handle" /\ result.type = "return" /\ resps # <<>> /\ IsParsable(Last(resps))) =>
        LET doc == Last(resps).doc
        IN  /\ Len(result.rows) = Len(doc.rows)
            /\ \A r \in 1..Len(doc.rows) :
                  Len(doc.rows[r]) <= Len(doc.thead) =>
                      result.rows[r] = ZippedWithHeader(doc, doc.rows[r])

\* the log the spec names for a kind
LogOf(ct) == IF ct = "CARRIER" THEN "carrier_data_full.jsonl" ELSE "airport_data_full.jsonl"

\* C19: a crawl changes no file but the log of its own kind, and when the
\* module is run as a script the AIRPORT crawl starts only when the CARRIER
\* crawl has fetched its whole code space and logged its completion: no
\* AIRPORT code is fetched before.
C19_OwnLogOnly ==
    /\ [][\A f \in DOMAIN files : files'[f] # files[f] => f = LogOf(code_type)]_vars
    /\ [][code_type' # code_type =>
             /\ code_type = "CARRIER"
             /\ pc = "done"
             /\ fetched = Codes
             /\ "CARRIER" \in completed]_vars
    /\ [](/\ code_type = "AIRPORT" => "CARRIER" \in completed
          /\ pc # "start" =>
                \A i \in 1..Len(fetched) : Len(fetched[i]) = CodeLength(code_type)
          /\ "CARRIER" \notin completed => files[LogOf("AIRPORT")] = <<>>)

\* the AIRPORT crawl has appended to its log while the CARRIER log holds the
\* record the CARRIER crawl wrote
C19_Witness ==
    /\ code_type = "AIRPORT"
    /\ pc = "loop"
    /\ files[LogOf("CARRIER")] # <<>>
    /\ files[LogOf("AIRPORT")] # <<>>
    /\ files[LogOf("CARRIER")] # files[LogOf("AIRPORT")]

\* the progress summaries among the log records of the current code
ProgressEvents == {i \in 1..Len(events) : events[i].what = "progress"}

\* C20: the counter equals the number of codes whose processing has
\* finished, whether the fetch returned, found no record or failed at
\* transport level; the code that brings the counter to a positive multiple
\* of REPORT_FREQUENCY, and no other, makes the driver emit a progress
\* summary, as the last record for that code, with the counter and the kind.
C20_ProgressEveryN ==
    /\ pc \in {"start", "loop", "done"} => processed = idx
    /\ pc \in {"get", "handle"} =>
          (processed = idx - 1 /\ ProgressEvents = {})
    /\ (pc = "loop" /\ idx >= 1) =>
          /\ result.type \in {"return", "ValueError", "RequestException"}
          /\ IF processed % REPORT_FREQUENCY = 0
             THEN /\ ProgressEvents = {Len(events)}
                  /\ Last(events) = Event("INFO", "progress", <<processed, code_type>>)
             ELSE ProgressEvents = {}

\* the hundredth code failed at transport level: it is counted and the
\* progress summary follows the error record
C20_Witness ==
    /\ pc = "loop"
    /\ processed = REPORT_FREQUENCY
    /\ result.type = "RequestException"
    /\ Len(events) > 1
    /\ Last(events).what = "progress"
    /\ Last(events).arg = <<REPORT_FREQUENCY, code_type>>

====
